---- MODULE Spec2Model ----
(***************************************************************************)
(* Model of byhowe/lid: src/power_supply.rs (PowerSupply, Status,          *)
(* DeviceType).                                                            *)
(*                                                                         *)
(* Strings (OsStr / str) are sequences of one-character strings; a byte    *)
(* that is not valid UTF-8 is the element BadByte.  Option<T> is a         *)
(* sequence of length 0 (None) or 1 (Some).                                *)
(***************************************************************************)
EXTENDS Integers, Sequences, FiniteSets, TLC

VARIABLES
    socket,          \* PowerSupply.socket.is_some()
    bat,             \* PowerSupply.bat : Option<udev::Device>
    adp,             \* PowerSupply.adp : Option<udev::Device>
    status,          \* PowerSupply.status
    status_changed,  \* PowerSupply.status_changed
    pc,              \* position of the thread inside update()
    panic_msg,       \* message of the panic that ended the process, if any
    ub,              \* an unwrap_unchecked() has been executed on None
    devices_len,     \* enumerate(): devices.len() of the Vec being iterated
    enumerated,      \* history: device_type of each device enumerate() has set
    did_enumerate,   \* history: the running/last update() went through enumerate()
    drained,         \* history: events drained by the running/last update(), capped
    prev_status,     \* history: status before the last current_charging_status
    last_online,     \* history: adp's POWER_SUPPLY_ONLINE at the last one of them
    prev_online,     \* history: adp's POWER_SUPPLY_ONLINE at the one before it
    resolved,        \* history: completed current_charging_status calls, capped
    scenario,        \* history: how far the run has followed the end-to-end scenario
    ingest,          \* history: the device set_device has last stored in this update()
    away,            \* history: within this batch the held devices resolved to another status
    returned,        \* what the last getter called since update() returned has returned
    arg,             \* SpecFn: the descriptor the pure functions are applied to
    ret,             \* SpecFn: results of the pure functions on arg
    m_pc,            \* main(): position of the thread
    m_queue,         \* main(): udev events waiting in the monitor socket
    m_events,        \* main(): `events`, the readiness events poll() has filled in
    m_out,           \* main(): the lines written to stdout
    m_seq,           \* main(): sequence number of the last uevent the kernel sent
    m_wake_seq       \* history: m_seq when poll() last returned

histVars == <<scenario, ingest, away, returned>>

mainVars == <<m_pc, m_queue, m_events, m_out, m_seq, m_wake_seq>>

psVars == <<socket, bat, adp, status, status_changed, pc, panic_msg, ub,
            devices_len, enumerated, did_enumerate, drained, prev_status,
            last_online, prev_online, resolved>>

fnVars == <<arg, ret>>

vars == <<socket, bat, adp, status, status_changed, pc, panic_msg, ub,
          devices_len, enumerated, did_enumerate, drained, prev_status,
          last_online, prev_online, resolved, scenario, ingest, away,
          returned, arg, ret, m_pc, m_queue, m_events, m_out, m_seq,
          m_wake_seq>>

----------------------------------------------------------------------------
(* Option<T> *)

None == <<>>
Some(x) == <<x>>
is_some(o) == o # None
is_none(o) == o = None
unwrap(o) == o[1]

----------------------------------------------------------------------------
(* Strings *)

BadByte == "\\xFF"
ReplacementChar == "U+FFFD"

s_empty == <<>>
s_0 == <<"0">>
s_1 == <<"1">>
s_2 == <<"2">>
s_battery == <<"b", "a", "t", "t", "e", "r", "y">>
s_ac == <<"a", "c">>
s_BAT == <<"B", "A", "T">>
s_ADP == <<"A", "D", "P">>
s_Charging == <<"C", "h", "a", "r", "g", "i", "n", "g">>
s_Discharging == <<"D", "i", "s", "c", "h", "a", "r", "g", "i", "n", "g">>
s_Not_charging == <<"N", "o", "t", " ", "c", "h", "a", "r", "g", "i", "n", "g">>

\* OsStr::to_str: None when the bytes are not valid UTF-8.
to_str(os) == IF \E i \in DOMAIN os : os[i] = BadByte THEN None ELSE Some(os)

\* OsStr::to_string_lossy: invalid bytes become U+FFFD.
to_string_lossy(os) ==
    [i \in DOMAIN os |-> IF os[i] = BadByte THEN ReplacementChar ELSE os[i]]

\* str::starts_with
starts_with(s, prefix) ==
    /\ Len(s) >= Len(prefix)
    /\ \A i \in 1..Len(prefix) : s[i] = prefix[i]

\* Option::unwrap_or_default for Option<&str> / Option<&OsStr>
unwrap_or_default(o) == IF is_some(o) THEN unwrap(o) ELSE s_empty

----------------------------------------------------------------------------
(* str::parse::<i32>() *)

I32_MAX == 2147483647
I32_MIN == (-I32_MAX) - 1

Digits == {"0", "1", "2", "3", "4", "5", "6", "7", "8", "9"}

digit(c) ==
    CASE c = "0" -> 0 [] c = "1" -> 1 [] c = "2" -> 2 [] c = "3" -> 3
      [] c = "4" -> 4 [] c = "5" -> 5 [] c = "6" -> 6 [] c = "7" -> 7
      [] c = "8" -> 8 [] c = "9" -> 9

\* The digit loop of i32::from_str_radix(_, 10): Some(value) or None on an
\* invalid digit or on overflow (checked_mul, then checked_add/checked_sub).
RECURSIVE parse_digits(_, _, _, _)
parse_digits(s, i, acc, positive) ==
    IF i > Len(s) THEN Some(acc)
    ELSE IF s[i] \notin Digits THEN None
    ELSE IF positive
    THEN IF acc > I32_MAX \div 10 THEN None
         ELSE IF digit(s[i]) > I32_MAX - acc * 10 THEN None
         ELSE parse_digits(s, i + 1, acc * 10 + digit(s[i]), positive)
    ELSE IF acc < -(I32_MAX \div 10) THEN None
         ELSE IF acc * 10 < I32_MIN + digit(s[i]) THEN None
         ELSE parse_digits(s, i + 1, acc * 10 - digit(s[i]), positive)

\* Result<i32, ParseIntError> as an Option: empty input, a lone sign, a
\* non-digit and overflow are errors.
parse_i32(s) ==
    IF Len(s) = 0 THEN None
    ELSE IF s[1] \in {"+", "-"}
    THEN IF Len(s) = 1 THEN None
         ELSE parse_digits(SubSeq(s, 2, Len(s)), 1, 0, s[1] = "+")
    ELSE parse_digits(s, 1, 0, TRUE)

unwrap_or(o, d) == IF is_some(o) THEN unwrap(o) ELSE d

----------------------------------------------------------------------------
(* enum DeviceType, enum Status *)

Battery == "Battery"
Adapter == "Adapter"
DeviceType == {Battery, Adapter}

Discharging == "Discharging"
Charging == "Charging"
Unknown == "Unknown"
Status == {Discharging, Charging, Unknown}

\* Option<DeviceType>::None
NoType == "None"

----------------------------------------------------------------------------
(* udev::Device: what the program reads of it.                             *)
(*   parent  : the device has a parent device                              *)
(*   driver  : Option<OsStr>, the parent's driver                          *)
(*   sysname : OsStr                                                       *)
(*   online  : Option<OsStr>, property POWER_SUPPLY_ONLINE                 *)
(*   status  : Option<OsStr>, property POWER_SUPPLY_STATUS                 *)

Device(parent, driver, sysname, online, stat) ==
    [parent |-> parent, driver |-> driver, sysname |-> sysname,
     online |-> online, status |-> stat]

\* read_from_battery_device without the "Not charging" arm.
read_from_battery_device_no_not_charging(dev) ==
    LET s == unwrap_or_default(
                 IF is_some(dev.status) THEN to_str(unwrap(dev.status)) ELSE None)
    IN  IF s = s_Charging THEN Charging
        ELSE IF s = s_Discharging THEN Discharging
        ELSE Unknown

\* Status::read_from_battery_device
read_from_battery_device(dev) ==
    LET s == unwrap_or_default(
                 IF is_some(dev.status) THEN to_str(unwrap(dev.status)) ELSE None)
    IN  IF s = s_Charging THEN Charging
        ELSE IF s = s_Discharging \/ s = s_Not_charging THEN Discharging
        ELSE Unknown

\* read_from_adapter_device whose Charging arm is `1` instead of `1 | 2`.
read_from_adapter_device_no_2(dev) ==
    LET online == unwrap_or(
                      parse_i32(unwrap_or_default(to_str(unwrap_or_default(dev.online)))),
                      -1)
    IN  IF online = 0 THEN Discharging
        ELSE IF online = 1 THEN Charging
        ELSE Unknown

\* Status::read_from_adapter_device
read_from_adapter_device(dev) ==
    LET online == unwrap_or(
                      parse_i32(unwrap_or_default(to_str(unwrap_or_default(dev.online)))),
                      -1)
    IN  IF online = 0 THEN Discharging
        ELSE IF online = 1 \/ online = 2 THEN Charging
        ELSE Unknown

\* device_type that looks at the sysname before the driver.
device_type_sysname_first(dev) ==
    IF ~dev.parent THEN NoType
    ELSE IF is_none(dev.driver) THEN NoType
    ELSE IF is_none(to_str(unwrap(dev.driver))) THEN NoType
    ELSE LET driver == unwrap(to_str(unwrap(dev.driver)))
             sysname == to_string_lossy(dev.sysname)
         IN  IF starts_with(sysname, s_BAT) THEN Battery
             ELSE IF starts_with(sysname, s_ADP) THEN Adapter
             ELSE IF driver = s_battery THEN Battery
             ELSE IF driver = s_ac THEN Adapter
             ELSE NoType

\* PowerSupply::device_type; Option<DeviceType> with None written NoType.
\* Each `?` returns None from the function.
device_type(dev) ==
    IF ~dev.parent THEN NoType
    ELSE IF is_none(dev.driver) THEN NoType
    ELSE IF is_none(to_str(unwrap(dev.driver))) THEN NoType
    ELSE LET driver == unwrap(to_str(unwrap(dev.driver)))
             sysname == to_string_lossy(dev.sysname)
         IN  IF driver = s_battery THEN Battery
             ELSE IF driver = s_ac THEN Adapter
             ELSE IF starts_with(sysname, s_BAT) THEN Battery
             ELSE IF starts_with(sysname, s_ADP) THEN Adapter
             ELSE NoType

----------------------------------------------------------------------------
(* The devices the udev monitor and the enumerator deliver.                *)

s_usb == <<"u", "s", "b">>
s_BAT0 == <<"B", "A", "T", "0">>
s_ADP1 == <<"A", "D", "P", "1">>
s_AC == <<"A", "C">>

\* <<has a parent, the parent's driver, sysname>>, by what device_type makes
\* of them.
BatteryIdents == {<<TRUE, Some(s_battery), s_BAT0>>}
AdapterIdents == {<<TRUE, Some(s_ac), s_AC>>, <<TRUE, Some(s_usb), s_ADP1>>}
OtherIdents == {<<TRUE, Some(s_usb), s_AC>>, <<FALSE, None, s_BAT0>>}
Idents == BatteryIdents \cup AdapterIdents \cup OtherIdents
OnlineValues == {None, Some(s_0), Some(s_1)}
StatusValues == {None, Some(s_Charging), Some(s_Discharging)}

\* The property no reader looks at for the kind of device (online of a
\* battery, status of an adapter) is absent or present in one form.
Devices ==
    {Device(id[1], id[2], id[3], o, s) :
        id \in BatteryIdents, o \in {None, Some(s_1)}, s \in StatusValues}
    \cup
    {Device(id[1], id[2], id[3], o, s) :
        id \in AdapterIdents, o \in OnlineValues, s \in {None, Some(s_Charging)}}
    \cup
    {Device(id[1], id[2], id[3], o, s) :
        id \in OtherIdents, o \in {None, Some(s_1)}, s \in {None, Some(s_Charging)}}

MaxBatch == 2     \* events one update() drains at most
MaxDevices == 3   \* devices one scan_devices() returns at most

----------------------------------------------------------------------------
(* struct PowerSupply *)

TodoMsg == "not yet implemented"
AssertMsg == "Failed to find two power supply devices!"

NoRet == [device_type |-> None, adapter |-> None, battery |-> None]

\* The history variables when the PowerSupply is built.
InitHist ==
    /\ scenario = "new"
    /\ ingest = None
    /\ away = FALSE
    /\ returned = None

\* main() has not started.
InitMainVars ==
    /\ m_pc = "start"
    /\ m_queue = <<>>
    /\ m_events = <<>>
    /\ m_out = <<>>
    /\ m_seq = 0
    /\ m_wake_seq = 0

\* The status the held descriptors a and b resolve to.
resolution(a, b) ==
    IF read_from_adapter_device(a) # Unknown
    THEN read_from_adapter_device(a)
    ELSE read_from_battery_device(b)

\* The device set_device has stored in a slot, if it has stored it.
stored(dev) == IF device_type(dev) \in DeviceType THEN Some(dev) ELSE None

\* The end-to-end scenario: an adapter with online "1" and a battery with
\* status "Discharging" are ingested by the first update() (stage "r1" once it
\* has recomputed), an adapter with online "0" by the second ("r2"), nothing
\* by the third ("r3").  Any other step leaves the scenario ("off").
scenario_event(sc, dev) ==
    IF device_type(dev) = Adapter /\ dev.online = Some(s_1) /\ sc = "new"
    THEN "a"
    ELSE IF device_type(dev) = Adapter /\ dev.online = Some(s_1) /\ sc = "b"
    THEN "ab"
    ELSE IF device_type(dev) = Battery /\ dev.status = Some(s_Discharging)
            /\ sc = "new"
    THEN "b"
    ELSE IF device_type(dev) = Battery /\ dev.status = Some(s_Discharging)
            /\ sc = "a"
    THEN "ab"
    ELSE IF device_type(dev) = Adapter /\ dev.online = Some(s_0) /\ sc = "r1"
    THEN "r1a"
    ELSE "off"

scenario_recompute(sc) ==
    IF sc = "ab" THEN "r1"
    ELSE IF sc = "r1a" THEN "r2"
    ELSE IF sc = "r2" THEN "r3"
    ELSE "off"

\* PowerSupply::new
Init ==
    /\ socket = FALSE
    /\ bat = None
    /\ adp = None
    /\ status = Unknown
    /\ status_changed = TRUE
    /\ pc = "idle"
    /\ panic_msg = None
    /\ ub = FALSE
    /\ devices_len = 0
    /\ enumerated = <<>>
    /\ did_enumerate = FALSE
    /\ drained = 0
    /\ prev_status = Unknown
    /\ last_online = None
    /\ prev_online = None
    /\ resolved = 0
    /\ InitHist
    /\ arg = None
    /\ ret = NoRet
    /\ InitMainVars

\* set_device with the two slots exchanged.
set_device_swapped(dev) ==
    CASE device_type(dev) = Battery ->
             /\ adp' = Some(dev)
             /\ UNCHANGED <<bat, pc, panic_msg>>
      [] device_type(dev) = Adapter ->
             /\ bat' = Some(dev)
             /\ UNCHANGED <<adp, pc, panic_msg>>
      [] device_type(dev) = NoType ->
             /\ pc' = "panicked"
             /\ panic_msg' = Some(TodoMsg)
             /\ UNCHANGED <<bat, adp>>

\* set_device that fills an empty slot and never replaces a held descriptor.
set_device_keep_first(dev) ==
    CASE device_type(dev) = Battery ->
             /\ bat' = IF is_none(bat) THEN Some(dev) ELSE bat
             /\ UNCHANGED <<adp, pc, panic_msg>>
      [] device_type(dev) = Adapter ->
             /\ adp' = IF is_none(adp) THEN Some(dev) ELSE adp
             /\ UNCHANGED <<bat, pc, panic_msg>>
      [] device_type(dev) = NoType ->
             /\ pc' = "panicked"
             /\ panic_msg' = Some(TodoMsg)
             /\ UNCHANGED <<bat, adp>>

\* PowerSupply::set_device; todo!() panics.
set_device(dev) ==
    CASE device_type(dev) = Battery ->
             /\ bat' = Some(dev)
             /\ UNCHANGED <<adp, pc, panic_msg>>
      [] device_type(dev) = Adapter ->
             /\ adp' = Some(dev)
             /\ UNCHANGED <<bat, pc, panic_msg>>
      [] device_type(dev) = NoType ->
             /\ pc' = "panicked"
             /\ panic_msg' = Some(TodoMsg)
             /\ UNCHANGED <<bat, adp>>

\* update(): self.monitor_socket()? succeeds (the socket is built on first
\* use) and the iteration over the socket's events starts.
update_monitor_socket ==
    /\ pc = "idle"
    /\ socket' = TRUE
    /\ pc' = "drain"
    /\ drained' = 0
    /\ did_enumerate' = FALSE
    /\ enumerated' = <<>>
    /\ devices_len' = 0
    /\ UNCHANGED <<bat, adp, status, status_changed, panic_msg, ub,
                   prev_status, last_online, prev_online, resolved, arg, ret>>
    /\ ingest' = None
    /\ away' = FALSE
    /\ returned' = None
    /\ UNCHANGED scenario
    /\ UNCHANGED mainVars

\* update(): building the monitor socket fails; `?` returns the error.
update_monitor_socket_err ==
    /\ pc = "idle"
    /\ ~socket
    /\ pc' = "io_error"
    /\ UNCHANGED <<socket, bat, adp, status, status_changed, panic_msg, ub,
                   devices_len, enumerated, did_enumerate, drained,
                   prev_status, last_online, prev_online, resolved, arg, ret>>
    /\ UNCHANGED histVars
    /\ UNCHANGED mainVars

\* update(): the socket iterator yields an event; for_each calls set_device.
update_for_each_event ==
    /\ pc = "drain"
    /\ drained < MaxBatch
    /\ \E dev \in Devices :
          /\ set_device(dev)
          /\ ingest' = stored(dev)
          /\ scenario' = scenario_event(scenario, dev)
    /\ away' = (away \/ (/\ is_some(adp') /\ is_some(bat')
                         /\ resolution(unwrap(adp'), unwrap(bat')) # status))
    /\ drained' = drained + 1
    /\ UNCHANGED <<socket, status, status_changed, ub, devices_len,
                   enumerated, did_enumerate, prev_status, last_online,
                   prev_online, resolved, arg, ret>>
    /\ UNCHANGED returned
    /\ UNCHANGED mainVars

\* update(): the socket has no more events; current_charging_status is called.
update_iter_end ==
    /\ pc = "drain"
    /\ pc' = "resolve"
    /\ UNCHANGED <<socket, bat, adp, status, status_changed, panic_msg, ub,
                   devices_len, enumerated, did_enumerate, drained,
                   prev_status, last_online, prev_online, resolved, arg, ret>>
    /\ UNCHANGED histVars
    /\ UNCHANGED mainVars

\* set_devices_if_not_set without its condition.
must_enumerate_always == TRUE

\* set_devices_if_not_set: the condition under which enumerate() is called.
must_enumerate == is_none(bat) \/ is_none(adp)

\* enumerate(): Enumerator::new / match_subsystem / scan_devices fails.
enumerate_err ==
    /\ pc = "resolve"
    /\ must_enumerate
    /\ pc' = "io_error"
    /\ did_enumerate' = TRUE
    /\ UNCHANGED <<socket, bat, adp, status, status_changed, panic_msg, ub,
                   devices_len, enumerated, drained, prev_status,
                   last_online, prev_online, resolved, arg, ret>>
    /\ scenario' = "off"
    /\ UNCHANGED <<ingest, away, returned>>
    /\ UNCHANGED mainVars

\* enumerate(): the assertion on the number n of devices scanned.
devices_len_ok(n) == n = 2

\* enumerate(): scan_devices() returns n devices; assert!(devices.len() == 2).
\* The elements of the Vec are drawn when for_each reaches them.
enumerate_scan ==
    /\ pc = "resolve"
    /\ must_enumerate
    /\ did_enumerate' = TRUE
    /\ \E n \in 0..MaxDevices :
          /\ devices_len' = n
          /\ IF devices_len_ok(n)
             THEN /\ pc' = "enum"
                  /\ UNCHANGED panic_msg
             ELSE /\ pc' = "panicked"
                  /\ panic_msg' = Some(AssertMsg)
    /\ UNCHANGED enumerated
    /\ UNCHANGED <<socket, bat, adp, status, status_changed, ub, drained,
                   prev_status, last_online, prev_online, resolved, arg, ret>>
    /\ scenario' = "off"
    /\ UNCHANGED <<ingest, away, returned>>
    /\ UNCHANGED mainVars

\* enumerate(): devices.into_iter().for_each(|dev| self.set_device(dev)).
enumerate_for_each ==
    /\ pc = "enum"
    /\ Len(enumerated) < devices_len
    /\ \E dev \in Devices :
          /\ set_device(dev)
          /\ enumerated' = Append(enumerated, device_type(dev))
          /\ ingest' = stored(dev)
    /\ UNCHANGED <<socket, status, status_changed, ub, devices_len,
                   did_enumerate, drained, prev_status, last_online,
                   prev_online, resolved, arg, ret>>
    /\ UNCHANGED <<scenario, away, returned>>
    /\ UNCHANGED mainVars

\* What reading the adapter slot through unwrap_unchecked() can give: the
\* device's reading, or anything when the slot is None (undefined behaviour).
adapter_readings(a) ==
    IF is_some(a) THEN {read_from_adapter_device(unwrap(a))} ELSE Status

\* The same for the battery slot.
battery_readings(b) ==
    IF is_some(b) THEN {read_from_battery_device(unwrap(b))} ELSE Status

\* The match with the battery asked first and the adapter as the fallback.
resolve_battery_first(ar, b) ==
    {IF br = Unknown THEN ar ELSE br : br \in battery_readings(b)}

\* The match without the fallback arm.
resolve_no_fallback(ar, b) == {ar}

\* current_charging_status: the match on the adapter reading ar.
resolve(ar, b) == IF ar = Unknown THEN battery_readings(b) ELSE {ar}

\* current_charging_status is past set_devices_if_not_set.
at_resolve ==
    \/ pc = "resolve" /\ ~must_enumerate
    \/ pc = "enum" /\ Len(enumerated) = devices_len

\* The comparison made after self.status has been assigned.
changed_after_assign(new, old) == new # new

\* self.status_changed = true
changed_always(new, old) == TRUE

\* self.status_changed = status != self.status
changed(new, old) == new # old

\* current_charging_status: the status is computed and stored; update returns.
current_charging_status ==
    /\ at_resolve
    /\ \E ar \in adapter_readings(adp) :
          /\ \E s \in resolve(ar, bat) :
                /\ status_changed' = changed(s, status)
                /\ status' = s
          /\ ub' = (ub \/ is_none(adp) \/ (ar = Unknown /\ is_none(bat)))
    /\ prev_status' = status
    /\ last_online' = IF is_some(adp) THEN Some(unwrap(adp).online) ELSE None
    /\ prev_online' = last_online
    /\ resolved' = IF resolved < 2 THEN resolved + 1 ELSE resolved
    /\ pc' = "idle"
    /\ UNCHANGED <<socket, bat, adp, panic_msg, devices_len, enumerated,
                   did_enumerate, drained, arg, ret>>
    /\ scenario' = scenario_recompute(scenario)
    /\ UNCHANGED <<ingest, away, returned>>
    /\ UNCHANGED mainVars

\* current_charging_status: the unchecked unwrap of an empty slot crashes.
current_charging_status_crash ==
    /\ at_resolve
    /\ \/ is_none(adp)
       \/ /\ is_none(bat)
          /\ Unknown \in adapter_readings(adp)
    /\ ub' = TRUE
    /\ pc' = "crashed"
    /\ UNCHANGED <<socket, bat, adp, status, status_changed, panic_msg,
                   devices_len, enumerated, did_enumerate, drained,
                   prev_status, last_online, prev_online, resolved, arg, ret>>
    /\ UNCHANGED histVars
    /\ UNCHANGED mainVars

\* charging_status(&self), called between two update() calls.
charging_status ==
    /\ pc = "idle"
    /\ returned' = Some([fn |-> "charging_status", value |-> status])
    /\ UNCHANGED <<socket, bat, adp, status, status_changed, pc, panic_msg,
                   ub, devices_len, enumerated, did_enumerate, drained,
                   prev_status, last_online, prev_online, resolved, arg, ret>>
    /\ UNCHANGED <<scenario, ingest, away>>
    /\ UNCHANGED mainVars

\* charging_status_changed(&self), called between two update() calls.
charging_status_changed ==
    /\ pc = "idle"
    /\ returned' = Some([fn |-> "charging_status_changed",
                         value |-> status_changed])
    /\ UNCHANGED <<socket, bat, adp, status, status_changed, pc, panic_msg,
                   ub, devices_len, enumerated, did_enumerate, drained,
                   prev_status, last_online, prev_online, resolved, arg, ret>>
    /\ UNCHANGED <<scenario, ingest, away>>
    /\ UNCHANGED mainVars

Next ==
    \/ charging_status
    \/ charging_status_changed
    \/ update_monitor_socket
    \/ update_monitor_socket_err
    \/ update_for_each_event
    \/ update_iter_end
    \/ enumerate_err
    \/ enumerate_scan
    \/ enumerate_for_each
    \/ current_charging_status
    \/ current_charging_status_crash

Spec == Init /\ [][Next]_vars

----------------------------------------------------------------------------
(* The pure functions on their own: device_type, read_from_adapter_device  *)
(* and read_from_battery_device applied to one descriptor.                 *)

s_Full == <<"F", "u", "l", "l">>

\* <<has a parent, the parent's driver>>
FnParents ==
    {<<FALSE, None>>, <<TRUE, None>>, <<TRUE, Some(s_battery)>>,
     <<TRUE, Some(s_ac)>>, <<TRUE, Some(s_usb)>>, <<TRUE, Some(s_empty)>>,
     <<TRUE, Some(<<"B", "a", "t", "t", "e", "r", "y">>)>>,
     <<TRUE, Some(<<"A", "C">>)>>,
     <<TRUE, Some(<<BadByte, "a", "c">>)>>}

FnSysnames ==
    {s_BAT0, s_BAT, <<"B", "A">>, <<"b", "a", "t", "0">>,
     <<"x", "B", "A", "T", "0">>, <<BadByte, "B", "A", "T">>,
     <<"B", "A", "T", BadByte>>, s_ADP1, s_ADP, <<"A", "D">>, s_AC,
     <<"a", "d", "p", "1">>, s_empty}

FnOnline ==
    {None, Some(s_empty), Some(s_0), Some(s_1), Some(s_2), Some(<<"3">>),
     Some(<<"+", "0">>), Some(<<"+", "1">>), Some(<<"+", "2">>),
     Some(<<"-", "0">>), Some(<<"-", "1">>), Some(<<"-", "2">>),
     Some(<<"0", "1">>), Some(<<"0", "0">>), Some(<<"0", "0", "2">>),
     Some(<<"+", "0", "1">>), Some(<<"1", "0">>), Some(<<"2", "1">>),
     Some(<<"+">>), Some(<<"-">>), Some(<<"+", "+", "1">>),
     Some(<<"1", " ">>), Some(<<" ", "1">>), Some(<<"1", ".", "0">>),
     Some(<<"x">>), Some(<<"o", "n">>), Some(<<"1", BadByte>>),
     Some(<<"2", "1", "4", "7", "4", "8", "3", "6", "4", "7">>),
     Some(<<"2", "1", "4", "7", "4", "8", "3", "6", "4", "8">>),
     Some(<<"-", "2", "1", "4", "7", "4", "8", "3", "6", "4", "8">>),
     Some(<<"-", "2", "1", "4", "7", "4", "8", "3", "6", "4", "9">>),
     Some(<<"4", "2", "9", "4", "9", "6", "7", "2", "9", "7">>),
     Some(<<"4", "2", "9", "4", "9", "6", "7", "2", "9", "6">>)}

FnStatus ==
    {None, Some(s_empty), Some(s_Charging), Some(s_Discharging),
     Some(s_Not_charging), Some(s_Full),
     Some(<<"U", "n", "k", "n", "o", "w", "n">>),
     Some(<<"c", "h", "a", "r", "g", "i", "n", "g">>),
     Some(<<"C", "H", "A", "R", "G", "I", "N", "G">>),
     Some(<<"C", "h", "a", "r", "g", "i", "n", "g", " ">>),
     Some(<<"C", "h", "a", "r", "g", "i", "n">>),
     Some(<<"N", "o", "t", " ", "C", "h", "a", "r", "g", "i", "n", "g">>),
     Some(<<"N", "o", "t", "c", "h", "a", "r", "g", "i", "n", "g">>),
     Some(<<"C", "h", "a", "r", "g", "i", "n", "g", BadByte>>)}

FnDevices ==
    {Device(p[1], p[2], n, None, None) : p \in FnParents, n \in FnSysnames}
    \cup {Device(TRUE, Some(s_usb), s_AC, o, s) : o \in FnOnline, s \in FnStatus}

InitFn ==
    /\ socket = FALSE
    /\ bat = None
    /\ adp = None
    /\ status = Unknown
    /\ status_changed = TRUE
    /\ pc = "idle"
    /\ panic_msg = None
    /\ ub = FALSE
    /\ devices_len = 0
    /\ enumerated = <<>>
    /\ did_enumerate = FALSE
    /\ drained = 0
    /\ prev_status = Unknown
    /\ last_online = None
    /\ prev_online = None
    /\ resolved = 0
    /\ InitHist
    /\ arg \in {Some(d) : d \in FnDevices}
    /\ ret = NoRet
    /\ InitMainVars

call_device_type ==
    /\ is_none(ret.device_type)
    /\ ret' = [ret EXCEPT !.device_type = Some(device_type(unwrap(arg)))]
    /\ UNCHANGED <<socket, bat, adp, status, status_changed, pc, panic_msg,
                   ub, devices_len, enumerated, did_enumerate, drained,
                   prev_status, last_online, prev_online, resolved, arg>>
    /\ UNCHANGED histVars
    /\ UNCHANGED mainVars

call_read_from_adapter_device ==
    /\ is_none(ret.adapter)
    /\ ret' = [ret EXCEPT !.adapter = Some(read_from_adapter_device(unwrap(arg)))]
    /\ UNCHANGED <<socket, bat, adp, status, status_changed, pc, panic_msg,
                   ub, devices_len, enumerated, did_enumerate, drained,
                   prev_status, last_online, prev_online, resolved, arg>>
    /\ UNCHANGED histVars
    /\ UNCHANGED mainVars

call_read_from_battery_device ==
    /\ is_none(ret.battery)
    /\ ret' = [ret EXCEPT !.battery = Some(read_from_battery_device(unwrap(arg)))]
    /\ UNCHANGED <<socket, bat, adp, status, status_changed, pc, panic_msg,
                   ub, devices_len, enumerated, did_enumerate, drained,
                   prev_status, last_online, prev_online, resolved, arg>>
    /\ UNCHANGED histVars
    /\ UNCHANGED mainVars

NextFn ==
    \/ call_device_type
    \/ call_read_from_adapter_device
    \/ call_read_from_battery_device

SpecFn == InitFn /\ [][NextFn]_vars

----------------------------------------------------------------------------
(* src/main.rs: main() and print_event.                                    *)

\* impl Display for Status
fmt(s) ==
    CASE s = Discharging -> "Discharging"
      [] s = Charging -> "Charging"
      [] s = Unknown -> "Unknown"

\* The characters of a str as one string.
RECURSIVE join(_)
join(s) == IF s = <<>> THEN "" ELSE s[1] \o join(Tail(s))

\* os.to_str().unwrap_or(d)
to_str_unwrap_or(os, d) == IF is_some(to_str(os)) THEN join(unwrap(to_str(os))) ELSE d

\* o.map_or("", |s| { s.to_str().unwrap_or("") })
map_or_empty(o) == IF is_some(o) THEN to_str_unwrap_or(unwrap(o), "") ELSE ""

s_power_supply ==
    <<"p", "o", "w", "e", "r", "_", "s", "u", "p", "p", "l", "y">>
s_sys_BAT0 == <<"/", "s", "y", "s", "/", "B", "A", "T", "0">>
s_sys_bad == <<"/", "s", "y", "s", "/", BadByte>>

Token0 == 0       \* Token(0)
MaxSeq == 3       \* uevents the kernel sends at most

\* udev::Event of the monitor, which matches subsystem "power_supply":
\* what print_event reads of it.
EventTypes == {"add", "change"}
EventDevices ==
    {[syspath |-> s_sys_BAT0, subsystem |-> Some(s_power_supply),
      sysname |-> s_BAT0, devtype |-> None],
     [syspath |-> s_sys_bad, subsystem |-> Some(s_power_supply),
      sysname |-> s_AC, devtype |-> Some(s_usb)]}

Event(seq, type, dev) ==
    [sequence_number |-> seq, event_type |-> type, syspath |-> dev.syspath,
     subsystem |-> dev.subsystem, sysname |-> dev.sysname,
     devtype |-> dev.devtype]

\* The line print_event writes.
print_event(event) ==
    ToString(event.sequence_number) \o ": " \o event.event_type \o " "
    \o to_str_unwrap_or(event.syspath, "---")
    \o " (subsystem=" \o map_or_empty(event.subsystem)
    \o ", sysname=" \o to_str_unwrap_or(event.sysname, "")
    \o ", devtype=" \o map_or_empty(event.devtype) \o ")"

\* MonitorBuilder ... listen()?, Poll::new()?, register(...)? all succeed.
main_listen ==
    /\ m_pc = "start"
    /\ m_pc' = "poll"
    /\ UNCHANGED <<m_queue, m_events, m_out, m_seq, m_wake_seq>>
    /\ UNCHANGED <<psVars, histVars, fnVars>>

\* One of them fails and `?` returns the error from main.
main_listen_err ==
    /\ m_pc = "start"
    /\ m_pc' = "io_error"
    /\ UNCHANGED <<m_queue, m_events, m_out, m_seq, m_wake_seq>>
    /\ UNCHANGED <<psVars, histVars, fnVars>>

\* The kernel sends a uevent to the listening socket.
uevent ==
    /\ m_pc \in {"poll", "for"}
    /\ m_seq < MaxSeq
    /\ \E type \in EventTypes, dev \in EventDevices :
          m_queue' = Append(m_queue, Event(m_seq + 1, type, dev))
    /\ m_seq' = m_seq + 1
    /\ UNCHANGED <<m_pc, m_events, m_out, m_wake_seq>>
    /\ UNCHANGED <<psVars, histVars, fnVars>>

\* poll.poll(&mut events, None)? returns: the socket is reported readable
\* (only if an event is queued), writable, or both.
poll_returns ==
    /\ m_pc = "poll"
    /\ \E readable \in BOOLEAN, writable \in BOOLEAN :
          /\ readable \/ writable
          /\ readable => m_queue # <<>>
          /\ m_events' = <<[token |-> Token0, is_readable |-> readable,
                            is_writable |-> writable]>>
    /\ m_wake_seq' = m_seq
    /\ m_pc' = "for"
    /\ UNCHANGED <<m_queue, m_out, m_seq>>
    /\ UNCHANGED <<psVars, histVars, fnVars>>

\* poll.poll(...)? fails.
poll_err ==
    /\ m_pc = "poll"
    /\ m_pc' = "io_error"
    /\ UNCHANGED <<m_queue, m_events, m_out, m_seq, m_wake_seq>>
    /\ UNCHANGED <<psVars, histVars, fnVars>>

\* if event.token() == Token(0) && event.is_writable()
must_drain(event) == event.token = Token0 /\ event.is_writable

\* The body of `for event in &events` for one event.
for_event ==
    /\ m_pc = "for"
    /\ m_events # <<>>
    /\ IF must_drain(Head(m_events))
       THEN /\ m_out' = m_out \o [i \in DOMAIN m_queue |-> print_event(m_queue[i])]
            /\ m_queue' = <<>>
       ELSE UNCHANGED <<m_out, m_queue>>
    /\ m_events' = Tail(m_events)
    /\ UNCHANGED <<m_pc, m_seq, m_wake_seq>>
    /\ UNCHANGED <<psVars, histVars, fnVars>>

\* The for loop is over; loop { ... } starts again.
main_loop ==
    /\ m_pc = "for"
    /\ m_events = <<>>
    /\ m_pc' = "poll"
    /\ UNCHANGED <<m_queue, m_events, m_out, m_seq, m_wake_seq>>
    /\ UNCHANGED <<psVars, histVars, fnVars>>

NextMain ==
    \/ main_listen
    \/ main_listen_err
    \/ uevent
    \/ poll_returns
    \/ poll_err
    \/ for_event
    \/ main_loop

SpecMain == Init /\ [][NextMain]_vars

----------------------------------------------------------------------------
(* Properties *)

\* update() has returned Ok from current_charging_status; bat and adp are the
\* slots that call read.
recomputed == pc = "idle" /\ resolved > 0

both_held == is_some(adp) /\ is_some(bat)

\* C1: adapter-conclusive priority.  After a recompute with both descriptors
\* held, if the adapter reads Charging or Discharging then status is the
\* adapter's reading, whatever the battery's status property is.
C1_AdapterPriority ==
    (recomputed /\ both_held
       /\ read_from_adapter_device(unwrap(adp)) \in {Charging, Discharging})
    => status = read_from_adapter_device(unwrap(adp))

\* The adapter and the battery disagree and the adapter has won.
C1_Witness ==
    /\ recomputed /\ both_held
    /\ read_from_adapter_device(unwrap(adp)) = Discharging
    /\ read_from_battery_device(unwrap(bat)) = Charging
    /\ status = Discharging

\* C2: adapter-Unknown fallback.  After a recompute with both descriptors
\* held, if the adapter reads Unknown then status is the value read from the
\* battery's status property (Unknown included).
C2_AdapterUnknownFallback ==
    (recomputed /\ both_held
       /\ read_from_adapter_device(unwrap(adp)) = Unknown)
    => status = read_from_battery_device(unwrap(bat))

\* The adapter has no online property and the battery's Charging was taken.
C2_Witness ==
    /\ recomputed /\ both_held
    /\ unwrap(adp).online = None
    /\ unwrap(bat).status = Some(s_Charging)
    /\ status = Charging

\* C3: change detection.  Every step in which current_charging_status stores
\* a status sets status_changed to (new status # status before the call);
\* with both descriptors held the new status is the adapter's reading, or the
\* battery's when the adapter reads Unknown; and when the adapter's online was
\* "1" at the previous recompute and is "0" now, status_changed becomes TRUE
\* and status Discharging.
C3_ChangeDetection ==
    [][(pc # "idle" /\ pc' = "idle") =>
         /\ status_changed' = (status' # status)
         /\ both_held =>
               status' = IF read_from_adapter_device(unwrap(adp)) # Unknown
                         THEN read_from_adapter_device(unwrap(adp))
                         ELSE read_from_battery_device(unwrap(bat))
         /\ (/\ last_online = Some(Some(s_1))
             /\ is_some(adp)
             /\ unwrap(adp).online = Some(s_0))
            => (status_changed' /\ status' = Discharging)]_vars

\* Two recomputes, the adapter's online "1" at the first and "0" at the second.
C3_Witness ==
    /\ recomputed
    /\ prev_online = Some(Some(s_1))
    /\ last_online = Some(Some(s_0))
    /\ prev_status = Charging
    /\ status = Discharging
    /\ status_changed

\* C4: idempotence.  When update() drains no event, so that its recompute
\* follows the previous one with no device event in between, status_changed
\* is FALSE afterwards and status is what the previous recompute left.  (The
\* runs considered never dereference an empty slot.)
C4_Idempotence ==
    (pc = "idle" /\ resolved = 2 /\ drained = 0 /\ ~ub)
    => (~status_changed /\ status = prev_status)

\* What C5 says of a value o of POWER_SUPPLY_ONLINE.
C5_Table(o) ==
    IF o = Some(s_0) THEN Discharging
    ELSE IF o = Some(s_1) \/ o = Some(s_2) THEN Charging
    ELSE Unknown

\* C5 as stated: "0" reads Discharging, "1" and "2" read Charging, every
\* other string ("+1", "01", "-0" included) and an absent property Unknown.
C5_AdapterReading ==
    is_some(ret.adapter) => unwrap(ret.adapter) = C5_Table(unwrap(arg).online)

\* o is a decimal spelling of v (0, 1 or 2): an optional sign ('+', or '-'
\* for zero), any number of zeros, then v's digit.
C5_Spells(o, v) ==
    /\ is_some(o)
    /\ LET s == unwrap(o)
       IN  \E k \in {0, 1} :
              /\ Len(s) > k
              /\ k = 1 => (s[1] = "+" \/ (s[1] = "-" /\ v = 0))
              /\ \A i \in (k + 1)..(Len(s) - 1) : s[i] = "0"
              /\ s[Len(s)] = <<"0", "1", "2">>[v + 1]

\* C5 amended: the online string is read as a decimal integer; a spelling of
\* 0 reads Discharging, a spelling of 1 or 2 Charging, and every other
\* string or an absent property Unknown; the result is always a Status.
C5_AdapterReadingAmended ==
    is_some(ret.adapter) =>
        /\ unwrap(ret.adapter) \in Status
        /\ unwrap(ret.adapter) =
              IF C5_Spells(unwrap(arg).online, 0) THEN Discharging
              ELSE IF C5_Spells(unwrap(arg).online, 1)
                      \/ C5_Spells(unwrap(arg).online, 2) THEN Charging
              ELSE Unknown

\* "+1", another spelling of 1, has been read as Charging.
C5_Witness ==
    /\ unwrap(arg).online = Some(<<"+", "1">>)
    /\ ret.adapter = Some(Charging)

\* C6: battery reading.  "Charging" reads Charging, "Discharging" and
\* "Not charging" read Discharging, every other string (compared exactly)
\* and an absent property Unknown; the result is always a Status.
C6_BatteryReading ==
    is_some(ret.battery) =>
        /\ unwrap(ret.battery) \in Status
        /\ unwrap(ret.battery) =
              IF unwrap(arg).status = Some(s_Charging) THEN Charging
              ELSE IF unwrap(arg).status \in {Some(s_Discharging), Some(s_Not_charging)}
              THEN Discharging
              ELSE Unknown

\* "Not charging" has been read as Discharging.
C6_Witness ==
    /\ unwrap(arg).status = Some(s_Not_charging)
    /\ ret.battery = Some(Discharging)

\* C7: classification fallback.  A descriptor with no parent, or whose parent
\* has no driver, classifies as Battery when its sysname starts with "BAT",
\* as Adapter when it starts with "ADP", and as None otherwise.
C7_ClassifyFallback ==
    (is_some(ret.device_type)
       /\ (~unwrap(arg).parent \/ is_none(unwrap(arg).driver)))
    => unwrap(ret.device_type) =
          IF starts_with(unwrap(arg).sysname, s_BAT) THEN Battery
          ELSE IF starts_with(unwrap(arg).sysname, s_ADP) THEN Adapter
          ELSE NoType

\* C8: classification primary rule.  A descriptor whose parent's driver is
\* "battery" classifies as Battery and one whose parent's driver is "ac" as
\* Adapter, whatever its sysname.
C8_ClassifyPrimary ==
    (is_some(ret.device_type) /\ unwrap(arg).parent)
    => /\ unwrap(arg).driver = Some(s_battery)
            => unwrap(ret.device_type) = Battery
       /\ unwrap(arg).driver = Some(s_ac)
            => unwrap(ret.device_type) = Adapter

\* The driver is "battery", the sysname starts with "ADP": Battery.
C8_Witness ==
    /\ unwrap(arg).parent
    /\ unwrap(arg).driver = Some(s_battery)
    /\ starts_with(unwrap(arg).sysname, s_ADP)
    /\ ret.device_type = Some(Battery)

\* C9: unclassifiable devices are ignored.  set_device of a descriptor that
\* is neither Battery nor Adapter never ends the process: the panic of its
\* None arm is never the state of the program.
C9_UnclassifiableIgnored == panic_msg # Some(TodoMsg)

\* C10: startup precondition.  When enumerate() has run in an update() and
\* current_charging_status has gone on to store a status, the devices
\* enumerated were exactly one Battery and one Adapter.  (The runs considered
\* never dereference an empty slot.)
C10_StartupPrecondition ==
    (pc = "idle" /\ did_enumerate /\ ~ub)
    => enumerated \in {<<Battery, Adapter>>, <<Adapter, Battery>>}

\* C11: end-to-end scenario.  From a new tracker, an update() that ingests an
\* adapter with online "1" and a battery with status "Discharging" leaves
\* status Charging with status_changed TRUE; the next one, ingesting an
\* adapter with online "0", leaves Discharging with status_changed TRUE; the
\* next one, ingesting nothing, leaves Discharging with status_changed FALSE.
C11_EndToEnd ==
    /\ scenario = "r1" => (status = Charging /\ status_changed)
    /\ scenario = "r2" => (status = Discharging /\ status_changed)
    /\ scenario = "r3" => (status = Discharging /\ ~status_changed)

\* The third recompute of the scenario has returned.
C11_Witness == scenario = "r3" /\ pc = "idle"

\* A step in which set_device is called.
set_device_step ==
    \/ pc = "drain" /\ drained' = drained + 1
    \/ pc = "enum" /\ Len(enumerated') = Len(enumerated) + 1

\* C13: slot replacement and frame.  A set_device step that stores a
\* descriptor classified Battery makes bat exactly that descriptor and leaves
\* adp, status and status_changed as they were, and likewise for Adapter and
\* adp; status and status_changed change only in the step in which
\* current_charging_status returns; the getters return the field and change
\* no field.
C13_SlotFrame ==
    [][/\ (set_device_step /\ is_some(ingest')) =>
            /\ device_type(unwrap(ingest')) = Battery =>
                  (bat' = ingest' /\ UNCHANGED <<adp, status, status_changed>>)
            /\ device_type(unwrap(ingest')) = Adapter =>
                  (adp' = ingest' /\ UNCHANGED <<bat, status, status_changed>>)
       /\ (status' # status \/ status_changed' # status_changed) =>
            (pc \in {"resolve", "enum"} /\ pc' = "idle")
       /\ (returned' # returned /\ is_some(returned')) =>
            /\ UNCHANGED <<socket, bat, adp, status, status_changed>>
            /\ unwrap(returned').value =
                  IF unwrap(returned').fn = "charging_status"
                  THEN status ELSE status_changed]_vars

\* A battery event has replaced the held battery and status is still the
\* one computed before it, although the held descriptors resolve otherwise.
C13_Witness ==
    /\ pc = "drain" /\ resolved > 0
    /\ is_some(adp) /\ is_some(bat)
    /\ ingest = bat
    /\ read_from_adapter_device(unwrap(adp)) = Unknown
    /\ status # read_from_battery_device(unwrap(bat))

\* C14: status is a function of the held descriptors.  In every state,
\* status is the resolution of the held adapter and battery, and Unknown
\* when a slot is absent.
C14_StatusIsFunction ==
    /\ (is_some(adp) /\ is_some(bat)) =>
          status = resolution(unwrap(adp), unwrap(bat))
    /\ (is_none(adp) \/ is_none(bat)) => status = Unknown

\* C14 amended: status is Unknown until the first recompute has returned, and
\* whenever a recompute has just returned with both descriptors held, status
\* is their resolution.
C14_StatusAtReturn ==
    /\ resolved = 0 => status = Unknown
    /\ (pc = "idle" /\ resolved > 0 /\ is_some(adp) /\ is_some(bat)) =>
          status = IF read_from_adapter_device(unwrap(adp)) \in {Charging, Discharging}
                   THEN read_from_adapter_device(unwrap(adp))
                   ELSE read_from_battery_device(unwrap(bat))

\* A recompute after ingested events has moved status to the resolution of
\* the descriptors now held.
C14_Witness ==
    /\ pc = "idle" /\ resolved > 0 /\ drained > 0
    /\ is_some(adp) /\ is_some(bat)
    /\ prev_status = Discharging
    /\ status = Charging

\* C15: safe slot access.  current_charging_status never reads a slot that
\* is None through unwrap_unchecked.
C15_SafeSlotAccess == ~ub

\* C17: batch deduplication.  When a recompute has returned, the descriptor
\* set_device stored last is the one held in the slot of its type; if within
\* the batch the held descriptors resolved to another status and at the end
\* resolve to the previous one again, status_changed is FALSE and status is
\* the previous one; and status_changed is TRUE only if status differs from
\* the status of the recompute before.
C17_BatchDedup ==
    (pc = "idle" /\ resolved > 0) =>
        /\ is_some(ingest) =>
              /\ device_type(unwrap(ingest)) = Battery => bat = ingest
              /\ device_type(unwrap(ingest)) = Adapter => adp = ingest
        /\ (/\ away /\ is_some(adp) /\ is_some(bat)
            /\ resolution(unwrap(adp), unwrap(bat)) = prev_status)
           => (~status_changed /\ status = prev_status)
        /\ status_changed => status # prev_status

\* The adapter's online was "1" at the last recompute, two adapter events
\* moved the resolution away from Charging and back to online "1", and the
\* recompute reports no change.
C17_Witness ==
    /\ pc = "idle" /\ resolved = 2 /\ drained = 2 /\ away
    /\ prev_online = Some(Some(s_1))
    /\ last_online = Some(Some(s_1))
    /\ ingest = adp
    /\ prev_status = Charging /\ status = Charging
    /\ ~status_changed

\* C18: initial state.  A new tracker has both slots None, status Unknown and
\* status_changed TRUE, and the getters return these before any recompute;
\* when the first recompute resolves to Unknown, status_changed is FALSE.
C18_InitialState ==
    /\ (pc = "idle" /\ resolved = 0) =>
          (is_none(bat) /\ is_none(adp) /\ status = Unknown /\ status_changed)
    /\ (resolved = 0 /\ is_some(returned)) =>
          unwrap(returned).value =
              IF unwrap(returned).fn = "charging_status" THEN Unknown ELSE TRUE
    /\ (pc = "idle" /\ resolved = 1 /\ status = Unknown) => ~status_changed

\* The first recompute, with both descriptors held, has resolved to Unknown
\* and the getter has returned FALSE.
C18_Witness ==
    /\ pc = "idle" /\ resolved = 1 /\ ~ub
    /\ is_some(adp) /\ is_some(bat)
    /\ status = Unknown
    /\ returned = Some([fn |-> "charging_status_changed", value |-> FALSE])

\* C19: one-time enumeration.  No step empties a slot, so both slots held
\* stay held; and enumerate() is entered only when a slot is None, so an
\* update() that starts with both slots held never enumerates.
C19_OneTimeEnumeration ==
    [][/\ is_some(bat) => is_some(bat')
       /\ is_some(adp) => is_some(adp')
       /\ (~did_enumerate /\ did_enumerate') => (is_none(bat) \/ is_none(adp))
       /\ (pc = "resolve" /\ is_some(bat) /\ is_some(adp)) => pc' # "enum"]_vars

\* A second update() with both slots held has returned without enumerating.
C19_Witness ==
    /\ pc = "idle" /\ resolved = 2
    /\ is_some(adp) /\ is_some(bat)
    /\ ~did_enumerate

\* C12: observable output.  Every line the program's main loop writes is
\* `Charging status changed: <Status>` with Status rendered as Discharging,
\* Charging or Unknown; no other output is produced.
C12_ObservableOutput ==
    \A i \in DOMAIN m_out :
        \E s \in Status : m_out[i] = "Charging status changed: " \o fmt(s)

\* C16: drain on every wake.  When the loop waits in poll() again, no event
\* that was queued when poll() last returned is still in the socket.
C16_DrainOnEveryWake ==
    m_pc = "poll" =>
        \A i \in DOMAIN m_queue : m_queue[i].sequence_number > m_wake_seq

====
